---- MODULE Spec2Model ----
(***************************************************************************)
(* A model of QtNodes::Node (src/src/Node.cpp): the node of a dataflow     *)
(* graph editor.  The state is the fields of every Node (_uid, _nodeState, *)
(* _nodeGraphicsObject and its position, the freshness of _nodeGeometry),  *)
(* the data model's port counts and output data, and the connections of    *)
(* the scene.  Every public operation and slot of Node is one action.  The *)
(* calls an operation makes on its collaborators (the data model, the      *)
(* graphics object, the geometry, the connections) are recorded, in call   *)
(* order, in the variable trace.                                           *)
(***************************************************************************)
EXTENDS Integers, Sequences, FiniteSets, TLC

\* Bounds of the model.
MaxPorts == 2
MaxConns == 2
MaxUid == 2
MaxCoord == 1

Nodes == {"n1", "n2"}
NoNode == "none"
PortTypes == {"In", "Out"}
DataTypes == {"int", "text"}
Data == {"null", "a"}
Converters == {"none", "upper"}
Coords == 0..MaxCoord
Uuids == 0..MaxUid

VARIABLES
    graphics,   \* graphics[n]: _nodeGraphicsObject of n is not null
    pos,        \* pos[n]: _nodeGraphicsObject->pos()
    uid,        \* uid[n]: _uid (0 is the null QUuid)
    reaction,   \* reaction[n]: the reaction part of _nodeState
    nPorts,     \* nPorts[n][t]: _nodeDataModel->nPorts(t)
    entries,    \* entries[n][t]: _nodeState.getEntries(t): per port, the connections
                \* of the port in iteration order, each with its two ends and converter
    outData,    \* outData[n][i+1]: _nodeDataModel->outData(i)
    geomFresh,  \* geomFresh[n]: _nodeGeometry was recalculated after the last change
    lastOp,     \* the operation that ran last, and its arguments
    json,       \* the JSON object restore was given, or save returned
    trace,      \* the calls the last operation made, in order
    nullDeref   \* the last operation dereferenced a null _nodeGraphicsObject

vars == <<graphics, pos, uid, reaction, nPorts, entries, outData,
          geomFresh, lastOp, json, trace, nullDeref>>

(***************************************************************************)
(* Helpers                                                                 *)
(***************************************************************************)
RECURSIVE Flatten(_)
Flatten(ss) == IF ss = <<>> THEN <<>> ELSE Head(ss) \o Flatten(Tail(ss))

Range(s) == {s[k] : k \in DOMAIN s}

\* One call of an operation on a collaborator.  g: the call goes through
\* this node's _nodeGraphicsObject pointer.
Call(name, n, port, c, data, g) ==
    [call |-> name, node |-> n, port |-> port, conn |-> c, data |-> data, g |-> g]

Op(name, n, port, args) == [op |-> name, node |-> n, port |-> port, args |-> args]

NoConn == [outNode |-> NoNode, outPort |-> 0, inNode |-> NoNode, inPort |-> 0,
           conv |-> "none"]

EmptyObject == [k \in {} |-> 0]

\* An unordered_map iterates in an order the program does not choose: a new
\* element may land anywhere in the iteration order.
InsertAt(s, k, c) == SubSeq(s, 1, k) \o <<c>> \o SubSeq(s, k + 1, Len(s))

\* The TypeConverter of a connection, applied to a value.
Convert(cv, d) ==
    IF cv = "upper" /\ d = "a" THEN "A" ELSE d

\* NodeState::connections(portType, index)
Connections(n, t, index) == entries[n][t][index + 1]

(***************************************************************************)
(* Node::recalculateVisuals                                                *)
(***************************************************************************)
RecalculateVisualsCalls(n) ==
    << Call("setGeometryChanged", n, 0, NoConn, <<>>, TRUE),
       Call("recalculateSize", n, 0, NoConn, <<>>, FALSE),
       Call("update", n, 0, NoConn, <<>>, TRUE),
       Call("moveConnections", n, 0, NoConn, <<>>, TRUE) >>

(***************************************************************************)
(* Node::propagateData                                                     *)
(***************************************************************************)
\* The loop body: read the upstream value, convert it when the connection
\* has a converter.
GatherOne(od, c) ==
    LET v == od[c.outNode][c.outPort + 1]
    IN  IF c.conv # "none" THEN Convert(c.conv, v) ELSE v

\* Mutant of GatherData: a null upstream value is skipped.
GatherDataSkipsNull(od, n, inPortIndex) ==
    LET cs == Connections(n, "In", inPortIndex)
    IN  SelectSeq([k \in 1..Len(cs) |-> GatherOne(od, cs[k])], LAMBDA d : d # "null")

\* The vector handed to setInData: one entry per connection, in iteration order.
GatherData(od, n, inPortIndex) ==
    LET cs == Connections(n, "In", inPortIndex)
    IN  [k \in 1..Len(cs) |-> GatherOne(od, cs[k])]

GatherCalls(od, n, inPortIndex) ==
    LET cs == Connections(n, "In", inPortIndex)
        one(c) ==
            LET v == od[c.outNode][c.outPort + 1]
            IN  <<Call("outData", c.outNode, c.outPort, c, <<v>>, FALSE)>> \o
                (IF c.conv # "none"
                 THEN <<Call("converter", c.outNode, c.outPort, c, <<v>>, FALSE)>>
                 ELSE <<>>)
    IN  Flatten([k \in 1..Len(cs) |-> one(cs[k])])

\* Lines 148-152: the refresh that follows setInData.
RefreshCalls(n) ==
    << Call("setGeometryChanged", n, 0, NoConn, <<>>, TRUE),
       Call("recalculateSize", n, 0, NoConn, <<>>, FALSE),
       Call("update", n, 0, NoConn, <<>>, TRUE),
       Call("moveConnections", n, 0, NoConn, <<>>, TRUE) >>
    \o RecalculateVisualsCalls(n)

\* Mutant of PropagateCalls: the node is refreshed before the model gets its input.
PropagateCallsRefreshFirst(od, n, inPortIndex) ==
    <<Call("propagateData", n, inPortIndex, NoConn, <<>>, FALSE)>>
    \o GatherCalls(od, n, inPortIndex)
    \o RefreshCalls(n)
    \o <<Call("setInData", n, inPortIndex, NoConn, GatherData(od, n, inPortIndex), FALSE)>>
    \o <<Call("return", n, inPortIndex, NoConn, <<>>, FALSE)>>

\* Mutant of PropagateCalls: the input is delivered to port 0 whatever the port.
PropagateCallsPortZero(od, n, inPortIndex) ==
    <<Call("propagateData", n, inPortIndex, NoConn, <<>>, FALSE)>>
    \o GatherCalls(od, n, inPortIndex)
    \o <<Call("setInData", n, 0, NoConn, GatherData(od, n, inPortIndex), FALSE)>>
    \o RefreshCalls(n)
    \o <<Call("return", n, inPortIndex, NoConn, <<>>, FALSE)>>

PropagateCalls(od, n, inPortIndex) ==
    <<Call("propagateData", n, inPortIndex, NoConn, <<>>, FALSE)>>
    \o GatherCalls(od, n, inPortIndex)
    \o <<Call("setInData", n, inPortIndex, NoConn, GatherData(od, n, inPortIndex), FALSE)>>
    \o RefreshCalls(n)
    \o <<Call("return", n, inPortIndex, NoConn, <<>>, FALSE)>>

(***************************************************************************)
(* Connection::propagateData: hands the data to the node at the connection's*)
(* input end, which gathers its input port again.                          *)
(***************************************************************************)
ConnectionPropagateCalls(od, c, nodeData) ==
    <<Call("Connection::propagateData", c.inNode, c.inPort, c, <<nodeData>>, FALSE)>>
    \o PropagateCalls(od, c.inNode, c.inPort)

(***************************************************************************)
(* Node::onDataUpdated                                                     *)
(***************************************************************************)
\* Mutant of OnDataUpdatedConnections: the connections of every output port.
OnDataUpdatedConnectionsAllPorts(n, index) == Flatten(entries[n]["Out"])

OnDataUpdatedConnections(n, index) == Connections(n, "Out", index)

\* Mutant of OnDataUpdatedCalls: the node repaints itself after the push.
OnDataUpdatedCallsRepaints(od, n, index) ==
    LET nodeData == od[n][index + 1]
        cs == OnDataUpdatedConnections(n, index)
    IN  <<Call("outData", n, index, NoConn, <<nodeData>>, FALSE)>>
        \o Flatten([k \in 1..Len(cs) |-> ConnectionPropagateCalls(od, cs[k], nodeData)])
        \o RecalculateVisualsCalls(n)

OnDataUpdatedCalls(od, n, index) ==
    LET nodeData == od[n][index + 1]
        cs == OnDataUpdatedConnections(n, index)
    IN  <<Call("outData", n, index, NoConn, <<nodeData>>, FALSE)>>
        \o Flatten([k \in 1..Len(cs) |-> ConnectionPropagateCalls(od, cs[k], nodeData)])

(***************************************************************************)
(* Node::onNodeSizeUpdated                                                 *)
(***************************************************************************)
\* NodeDataModel::embeddedWidget() is not null
HasEmbeddedWidget(n) == n = "n1"

MoveCalls(n, t) ==
    LET sets == entries[n][t]
        all == Flatten(sets)
    IN  [k \in 1..Len(all) |-> Call("ConnectionGraphicsObject::move", n, 0, all[k], <<>>, FALSE)]

OnNodeSizeUpdatedCalls(n) ==
    (IF HasEmbeddedWidget(n) THEN <<Call("adjustSize", n, 0, NoConn, <<>>, FALSE)>> ELSE <<>>)
    \o <<Call("recalculateSize", n, 0, NoConn, <<>>, FALSE)>>
    \o MoveCalls(n, "In") \o MoveCalls(n, "Out")

(***************************************************************************)
(* Node::onPortCountChanged                                                *)
(***************************************************************************)
\* Mutant of KillList: the first removed port is skipped.
KillListOffByOne(n, t, newCount) ==
    LET sets == entries[n][t]
    IN  Flatten(SubSeq(sets, newCount + 2, Len(sets)))

\* The connections of the ports newCount .. oldCount-1, in iteration order.
KillList(n, t, newCount) ==
    LET sets == entries[n][t]
    IN  Flatten(SubSeq(sets, newCount + 1, Len(sets)))

KillCalls(n, t, newCount) ==
    LET ks == KillList(n, t, newCount)
    IN  [k \in 1..Len(ks) |-> Call("killConnection", n, 0, ks[k], <<t>>, FALSE)]

OnPortCountChangedCalls(n, newIn, newOut) ==
    KillCalls(n, "In", newIn) \o KillCalls(n, "Out", newOut)
    \o <<Call("NodeState::updatePortCount", n, newIn, NoConn, <<>>, FALSE),
         Call("NodeGeometry::updatePortCount", n, 0, NoConn, <<>>, FALSE)>>
    \o RecalculateVisualsCalls(n)

\* The scene's reaction to killConnection: the connection is deleted and
\* leaves the state of both of its nodes.
WithoutConnections(ents, killed) ==
    [m \in Nodes |->
        [t \in PortTypes |->
            [i \in 1..Len(ents[m][t]) |->
                SelectSeq(ents[m][t][i], LAMBDA c : c \notin killed)]]]

\* The connections a run of calls emitted killConnection for.
Killed(done) == {done[k].conn : k \in {j \in DOMAIN done : done[j].call = "killConnection"}}

\* NodeState::updatePortCount: resize both vectors.
Resize(s, k) == [i \in 1..k |-> IF i <= Len(s) THEN s[i] ELSE <<>>]

UpdatePortCount(ents, n, newIn, newOut) ==
    [ents EXCEPT ![n] = [In |-> Resize(ents[n]["In"], newIn),
                         Out |-> Resize(ents[n]["Out"], newOut)]]

(***************************************************************************)
(* QJsonValue, QJsonObject and QUuid, as Node::save and Node::restore use   *)
(* them.  A string is the sequence of its character codes.                  *)
(***************************************************************************)
JUndefined == [t |-> "undefined", s |-> <<>>, d |-> 0, o |-> EmptyObject]
JString(str) == [t |-> "string", s |-> str, d |-> 0, o |-> EmptyObject]
JDouble(num) == [t |-> "double", s |-> <<>>, d |-> num, o |-> EmptyObject]
JObject(obj) == [t |-> "object", s |-> <<>>, d |-> 0, o |-> obj]

\* QJsonObject::operator[] const: Undefined for a key the object has not.
Value(obj, key) == IF key \in DOMAIN obj THEN obj[key] ELSE JUndefined
\* QJsonValue::toString, toDouble, toObject: the default for another type.
toString(v) == IF v.t = "string" THEN v.s ELSE <<>>
toDouble(v) == IF v.t = "double" THEN v.d ELSE 0
toObject(v) == IF v.t = "object" THEN v.o ELSE EmptyObject

\* QUuid::toString: the digits between braces.
UuidToString(u) == <<123, 48 + u, 125>>
\* QUuid(QString): the digits with or without braces; the null QUuid for
\* any other text.
UuidFromString(str) ==
    IF Len(str) = 3 /\ str[1] = 123 /\ str[3] = 125 /\ (str[2] - 48) \in Uuids
    THEN str[2] - 48
    ELSE IF Len(str) = 1 /\ (str[1] - 48) \in Uuids
    THEN str[1] - 48
    ELSE 0

\* NodeDataModel::save of the model of node n: an object of the model's own.
ModelSave(n) == "name" :> JString(IF n = "n1" THEN <<65>> ELSE <<66>>)

(***************************************************************************)
(* Node::save                                                              *)
(***************************************************************************)
SaveJson(u, p, modelJson) ==
    LET obj == ("x" :> JDouble(p.x)) @@ ("y" :> JDouble(p.y))
    IN  ("id" :> JString(UuidToString(u))) @@ ("model" :> JObject(modelJson))
        @@ ("position" :> JObject(obj))

NodeSave(n) == SaveJson(uid[n], pos[n], ModelSave(n))

SaveCalls(n) ==
    << Call("NodeDataModel::save", n, 0, NoConn, <<>>, FALSE),
       Call("pos", n, 0, NoConn, <<>>, TRUE),
       Call("pos", n, 0, NoConn, <<>>, TRUE) >>

(***************************************************************************)
(* Node::restore                                                           *)
(***************************************************************************)
RestoredUid(j) == UuidFromString(toString(Value(j, "id")))

\* Mutant of RestoredPos: x and y change places.
RestoredPosSwapped(j) ==
    LET positionJson == toObject(Value(j, "position"))
    IN  [x |-> toDouble(Value(positionJson, "y")), y |-> toDouble(Value(positionJson, "x"))]

\* Mutant of RestoredPos: a position with a malformed coordinate is dropped whole.
RestoredPosAllOrNothing(j) ==
    LET positionJson == toObject(Value(j, "position"))
    IN  IF Value(positionJson, "x").t = "double" /\ Value(positionJson, "y").t = "double"
        THEN [x |-> toDouble(Value(positionJson, "x")), y |-> toDouble(Value(positionJson, "y"))]
        ELSE [x |-> 0, y |-> 0]

RestoredPos(j) ==
    LET positionJson == toObject(Value(j, "position"))
    IN  [x |-> toDouble(Value(positionJson, "x")), y |-> toDouble(Value(positionJson, "y"))]

RestoredModel(j) == toObject(Value(j, "model"))

RestoreCalls(n, j) ==
    << Call("setPos", n, 0, NoConn, <<RestoredPos(j)>>, TRUE),
       Call("NodeDataModel::restore", n, 0, NoConn, <<RestoredModel(j)>>, FALSE) >>

(***************************************************************************)
(* Node::reactToPossibleConnection, Node::resetReactionToConnection        *)
(***************************************************************************)
\* The scene transform of an item that is only moved: a translation by pos.
MapFromScene(n, scenePoint) == [x |-> scenePoint.x - pos[n].x, y |-> scenePoint.y - pos[n].y]

ReactCalls(n, reactingPortType, reactingDataType, scenePoint) ==
    << Call("sceneTransform", n, 0, NoConn, <<>>, TRUE),
       Call("setDraggingPosition", n, 0, NoConn, <<MapFromScene(n, scenePoint)>>, FALSE),
       Call("update", n, 0, NoConn, <<>>, TRUE),
       Call("setReaction", n, 0, NoConn, <<"REACTING", reactingPortType, reactingDataType>>, FALSE) >>

\* Mutant of ResetCalls: the node is repainted and the reaction is left.
ResetCallsKeepsReaction(n) ==
    << Call("update", n, 0, NoConn, <<>>, TRUE) >>

ResetCalls(n) ==
    << Call("setReaction", n, 0, NoConn, <<"NOT_REACTING", "None", "none">>, FALSE),
       Call("update", n, 0, NoConn, <<>>, TRUE) >>

\* NodeState::setReaction, for the calls of a run: the last one stands.
ReactionAfter(done, old) ==
    LET sets == {k \in DOMAIN done : done[k].call = "setReaction"}
    IN  IF sets = {} THEN old
        ELSE LET k == CHOOSE i \in sets : \A j \in sets : j <= i
             IN  [reaction |-> done[k].data[1], portType |-> done[k].data[2],
                  dataType |-> done[k].data[3]]

(***************************************************************************)
(* Execution of a call sequence: a call through a null _nodeGraphicsObject *)
(* ends the run (a null pointer is dereferenced).                          *)
(***************************************************************************)
Faults(g, calls) == {k \in DOMAIN calls : calls[k].g /\ ~g[calls[k].node]}

FaultAt(g, calls) ==
    IF Faults(g, calls) = {} THEN 0
    ELSE CHOOSE k \in Faults(g, calls) : \A j \in Faults(g, calls) : k <= j

Executed(g, calls) ==
    IF FaultAt(g, calls) = 0 THEN calls
    ELSE SubSeq(calls, 1, FaultAt(g, calls) - 1)

Recalculated(done) == {done[k].node : k \in {j \in DOMAIN done : done[j].call = "recalculateSize"}}

\* geomFresh after an operation: a node whose geometry was recalculated is
\* fresh; a node that changed and was not recalculated is stale.
Freshness(done, changed) ==
    [m \in Nodes |->
        IF m \in Recalculated(done) THEN TRUE
        ELSE IF m \in changed THEN FALSE
        ELSE geomFresh[m]]

(***************************************************************************)
(* Initial state: every node as its constructor leaves it.                 *)
(***************************************************************************)
NotReacting == [reaction |-> "NOT_REACTING", portType |-> "None", dataType |-> "none"]
Origin == [x |-> 0, y |-> 0]
NewUuid(n) == IF n = "n1" THEN 1 ELSE MaxUid

InitNodes ==
    /\ graphics = [n \in Nodes |-> FALSE]
    /\ pos = [n \in Nodes |-> Origin]
    /\ uid = [n \in Nodes |-> NewUuid(n)]
    /\ reaction = [n \in Nodes |-> NotReacting]
    /\ outData = [n \in Nodes |-> [i \in 1..MaxPorts |-> "null"]]
    /\ geomFresh = [n \in Nodes |-> TRUE]
    /\ lastOp = Op("Node", NoNode, 0, <<>>)
    /\ json = EmptyObject
    /\ trace = <<>>
    /\ nullDeref = FALSE

Init ==
    /\ InitNodes
    /\ nPorts \in [Nodes -> [PortTypes -> 0..MaxPorts]]
    /\ entries = [n \in Nodes |-> [t \in PortTypes |-> [i \in 1..nPorts[n][t] |-> <<>>]]]

(***************************************************************************)
(* Actions                                                                 *)
(***************************************************************************)
\* Node::setGraphicsObject
SetGraphicsObject(n) ==
    /\ ~nullDeref
    /\ ~graphics[n]
    /\ graphics' = [graphics EXCEPT ![n] = TRUE]
    /\ pos' = [pos EXCEPT ![n] = Origin]
    /\ trace' = <<Call("recalculateSize", n, 0, NoConn, <<>>, FALSE)>>
    /\ geomFresh' = Freshness(<<Call("recalculateSize", n, 0, NoConn, <<>>, FALSE)>>, {})
    /\ lastOp' = Op("setGraphicsObject", n, 0, <<>>)
    /\ json' = EmptyObject
    /\ UNCHANGED <<uid, reaction, nPorts, entries, outData, nullDeref>>

\* The scene completes a connection, with converter cv or none, between an
\* output port of one node and an input port of another node:
\* NodeState::setConnection on both ends.
ConnectionCount ==
    LET one(n) == Len(Flatten(entries[n]["In"]))
    IN  one("n1") + one("n2")

AddConnection(outNode, inNode, cv) ==
    /\ ~nullDeref
    /\ ConnectionCount < MaxConns
    /\ outNode # inNode
    /\ graphics[outNode] /\ graphics[inNode]
    /\ \E outPort \in 0..(Len(entries[outNode]["Out"]) - 1),
          inPort \in 0..(Len(entries[inNode]["In"]) - 1) :
        \E kOut \in 0..Len(Connections(outNode, "Out", outPort)),
           kIn \in 0..Len(Connections(inNode, "In", inPort)) :
          LET c == [outNode |-> outNode, outPort |-> outPort,
                    inNode |-> inNode, inPort |-> inPort, conv |-> cv]
          IN  entries' = [entries EXCEPT
                            ![outNode]["Out"][outPort + 1] = InsertAt(@, kOut, c),
                            ![inNode]["In"][inPort + 1] = InsertAt(@, kIn, c)]
    /\ lastOp' = Op("setConnection", NoNode, 0, <<>>)
    /\ trace' = <<>>
    /\ json' = EmptyObject
    /\ UNCHANGED <<graphics, pos, uid, reaction, nPorts, outData, geomFresh, nullDeref>>

\* Node::propagateData(inPortIndex)
PropagateData(n, inPortIndex) ==
    /\ ~nullDeref
    /\ inPortIndex < Len(entries[n]["In"])
    /\ LET calls == PropagateCalls(outData, n, inPortIndex)
           done == Executed(graphics, calls)
       IN  /\ trace' = done
           /\ nullDeref' = (FaultAt(graphics, calls) # 0)
           /\ geomFresh' = Freshness(done, {})
    /\ lastOp' = Op("propagateData", n, inPortIndex, <<>>)
    /\ json' = EmptyObject
    /\ UNCHANGED <<graphics, pos, uid, reaction, nPorts, entries, outData>>

\* The model's output on port index becomes v and the model emits
\* dataUpdated(index): Node::onDataUpdated(index) runs.
DataUpdated(n, index, v) ==
    /\ ~nullDeref
    /\ index < nPorts[n]["Out"]
    /\ LET od == [outData EXCEPT ![n][index + 1] = v]
           calls == OnDataUpdatedCalls(od, n, index)
           done == Executed(graphics, calls)
       IN  /\ outData' = od
           /\ trace' = done
           /\ nullDeref' = (FaultAt(graphics, calls) # 0)
           /\ geomFresh' = Freshness(done, IF v # outData[n][index + 1] THEN {n} ELSE {})
    /\ lastOp' = Op("onDataUpdated", n, index, <<>>)
    /\ json' = EmptyObject
    /\ UNCHANGED <<graphics, pos, uid, reaction, nPorts, entries>>

\* The model's embedded widget changes its size and the model emits
\* embeddedWidgetSizeUpdated: Node::onNodeSizeUpdated runs.
NodeSizeUpdated(n) ==
    /\ ~nullDeref
    /\ LET calls == OnNodeSizeUpdatedCalls(n)
           done == Executed(graphics, calls)
       IN  /\ trace' = done
           /\ nullDeref' = (FaultAt(graphics, calls) # 0)
           /\ geomFresh' = Freshness(done, {n})
    /\ lastOp' = Op("onNodeSizeUpdated", n, 0, <<>>)
    /\ json' = EmptyObject
    /\ UNCHANGED <<graphics, pos, uid, reaction, nPorts, entries, outData>>

\* The model's port counts become newIn and newOut and
\* Node::onPortCountChanged runs.
PortCountChanged(n, newIn, newOut) ==
    /\ ~nullDeref
    /\ nPorts' = [nPorts EXCEPT ![n] = [In |-> newIn, Out |-> newOut]]
    /\ LET calls == OnPortCountChangedCalls(n, newIn, newOut)
           done == Executed(graphics, calls)
           killed == Killed(done)
       IN  /\ trace' = done
           /\ nullDeref' = (FaultAt(graphics, calls) # 0)
           /\ geomFresh' = Freshness(done,
                  IF [In |-> newIn, Out |-> newOut] # nPorts[n] THEN {n} ELSE {})
           /\ entries' = UpdatePortCount(WithoutConnections(entries, killed), n, newIn, newOut)
    /\ outData' = [outData EXCEPT ![n] =
                      [i \in 1..MaxPorts |-> IF i <= newOut THEN @[i] ELSE "null"]]
    /\ lastOp' = Op("onPortCountChanged", n, 0, <<newIn, newOut>>)
    /\ json' = EmptyObject
    /\ UNCHANGED <<graphics, pos, uid, reaction>>

\* Node::recalculateVisuals
RecalculateVisuals(n) ==
    /\ ~nullDeref
    /\ LET calls == RecalculateVisualsCalls(n)
           done == Executed(graphics, calls)
       IN  /\ trace' = done
           /\ nullDeref' = (FaultAt(graphics, calls) # 0)
           /\ geomFresh' = Freshness(done, {})
    /\ lastOp' = Op("recalculateVisuals", n, 0, <<>>)
    /\ json' = EmptyObject
    /\ UNCHANGED <<graphics, pos, uid, reaction, nPorts, entries, outData>>

\* Node::save
Save(n) ==
    /\ ~nullDeref
    /\ LET calls == SaveCalls(n)
           fault == FaultAt(graphics, calls) # 0
       IN  /\ trace' = Executed(graphics, calls)
           /\ nullDeref' = fault
           /\ json' = IF fault THEN EmptyObject ELSE NodeSave(n)
    /\ lastOp' = Op("save", n, 0, <<>>)
    /\ UNCHANGED <<graphics, pos, uid, reaction, nPorts, entries, outData, geomFresh>>

\* Node::restore(json)
Restore(n, j) ==
    /\ ~nullDeref
    /\ uid' = [uid EXCEPT ![n] = RestoredUid(j)]
    /\ LET calls == RestoreCalls(n, j)
           done == Executed(graphics, calls)
       IN  /\ trace' = done
           /\ nullDeref' = (FaultAt(graphics, calls) # 0)
           /\ pos' = IF \E k \in DOMAIN done : done[k].call = "setPos"
                     THEN [pos EXCEPT ![n] = RestoredPos(j)]
                     ELSE pos
    /\ json' = j
    /\ lastOp' = Op("restore", n, 0, <<>>)
    /\ UNCHANGED <<graphics, reaction, nPorts, entries, outData, geomFresh>>

\* Node::reactToPossibleConnection
ReactToPossibleConnection(n, reactingPortType, reactingDataType, scenePoint) ==
    /\ ~nullDeref
    /\ LET calls == ReactCalls(n, reactingPortType, reactingDataType, scenePoint)
           done == Executed(graphics, calls)
       IN  /\ trace' = done
           /\ nullDeref' = (FaultAt(graphics, calls) # 0)
           /\ reaction' = [reaction EXCEPT ![n] = ReactionAfter(done, @)]
    /\ lastOp' = Op("reactToPossibleConnection", n, 0, <<reactingPortType, reactingDataType>>)
    /\ json' = EmptyObject
    /\ UNCHANGED <<graphics, pos, uid, nPorts, entries, outData, geomFresh>>

\* Node::resetReactionToConnection
ResetReactionToConnection(n) ==
    /\ ~nullDeref
    /\ LET calls == ResetCalls(n)
           done == Executed(graphics, calls)
       IN  /\ trace' = done
           /\ nullDeref' = (FaultAt(graphics, calls) # 0)
           /\ reaction' = [reaction EXCEPT ![n] = ReactionAfter(done, @)]
    /\ lastOp' = Op("resetReactionToConnection", n, 0, <<>>)
    /\ json' = EmptyObject
    /\ UNCHANGED <<graphics, pos, uid, nPorts, entries, outData, geomFresh>>

\* The JSON objects restore is given.  A field is well formed, absent or of
\* another type; so is each coordinate.  The inputs are every well-formed
\* object, every object with one malformed field (or coordinate), and the
\* empty object.
Present(obj) == [k \in {key \in DOMAIN obj : obj[key].t # "undefined"} |-> obj[k]]

GoodIds == {JString(UuidToString(u)) : u \in Uuids}
BadIds == {JString(<<120>>), JDouble(1), JUndefined}
GoodCoords == {JDouble(c) : c \in Coords}
BadCoords == {JString(<<49>>), JUndefined}
PositionOf(a, b) == JObject(Present(("x" :> a) @@ ("y" :> b)))
GoodPositions == {PositionOf(a, b) : a \in GoodCoords, b \in GoodCoords}
BadPositions ==
    {PositionOf(a, b) : a \in BadCoords, b \in GoodCoords}
    \cup {PositionOf(a, b) : a \in GoodCoords, b \in BadCoords}
    \cup {JObject(EmptyObject), JString(<<>>), JUndefined}
GoodModels == {JObject(ModelSave(m)) : m \in Nodes}
BadModels == {JDouble(0), JUndefined}

NodeJson(i, m, p) == Present(("id" :> i) @@ ("model" :> m) @@ ("position" :> p))

RestoreInputs ==
    {NodeJson(i, m, p) : i \in GoodIds, m \in GoodModels, p \in GoodPositions}
    \cup {NodeJson(i, JObject(ModelSave("n1")), p) : i \in BadIds, p \in GoodPositions}
    \cup {NodeJson(i, JObject(ModelSave("n1")), p) : i \in GoodIds, p \in BadPositions}
    \cup {NodeJson(i, m, p) : i \in GoodIds, m \in BadModels, p \in GoodPositions}
    \cup {EmptyObject}

ScenePoints == {Origin, [x |-> MaxCoord, y |-> 0]}

\* The whole program: every operation of every node.
Next ==
    \/ \E n \in Nodes : SetGraphicsObject(n)
    \/ \E n \in Nodes, m \in Nodes, cv \in Converters : AddConnection(n, m, cv)
    \/ \E n \in Nodes, i \in 0..(MaxPorts - 1) : PropagateData(n, i)
    \/ \E n \in Nodes, i \in 0..(MaxPorts - 1), v \in Data : DataUpdated(n, i, v)
    \/ \E n \in Nodes : NodeSizeUpdated(n)
    \/ \E n \in Nodes, newIn \in 0..MaxPorts, newOut \in 0..MaxPorts :
          PortCountChanged(n, newIn, newOut)
    \/ \E n \in Nodes : RecalculateVisuals(n)
    \/ \E n \in Nodes : Save(n)
    \/ \E n \in Nodes, j \in RestoreInputs : Restore(n, j)
    \/ \E n \in Nodes, t \in PortTypes, dt \in DataTypes, p \in ScenePoints :
          ReactToPossibleConnection(n, t, dt, p)
    \/ \E n \in Nodes : ResetReactionToConnection(n)

Spec == Init /\ [][Next]_vars

\* Data propagation: the nodes' models are sources, sinks or filters and keep
\* their ports.
ModelKinds ==
    { [In |-> 0, Out |-> MaxPorts], [In |-> MaxPorts, Out |-> 0], [In |-> 1, Out |-> 1] }

InitData ==
    /\ InitNodes
    /\ nPorts \in [Nodes -> ModelKinds]
    /\ entries = [n \in Nodes |-> [t \in PortTypes |-> [i \in 1..nPorts[n][t] |-> <<>>]]]

NextData ==
    \/ \E n \in Nodes : SetGraphicsObject(n)
    \/ \E n \in Nodes, m \in Nodes, cv \in Converters : AddConnection(n, m, cv)
    \/ \E n \in Nodes, i \in 0..(MaxPorts - 1) : PropagateData(n, i)
    \/ \E n \in Nodes, i \in 0..(MaxPorts - 1), v \in Data : DataUpdated(n, i, v)
    \/ \E n \in Nodes : NodeSizeUpdated(n)

SpecData == InitData /\ [][NextData]_vars

\* Port changes: the models change their port counts and produce no data,
\* and the connections have no converter.
NextPorts ==
    \/ \E n \in Nodes : SetGraphicsObject(n)
    \/ \E n \in Nodes, m \in Nodes : AddConnection(n, m, "none")
    \/ \E n \in Nodes, newIn \in 0..MaxPorts, newOut \in 0..MaxPorts :
          PortCountChanged(n, newIn, newOut)

SpecPorts == Init /\ [][NextPorts]_vars

\* One node alone: every operation of node n1, which has one port of each
\* type and no connection.  No operation of a node without connections
\* touches another node.
Subject == "n1"

InitNode ==
    /\ InitNodes
    /\ nPorts = [n \in Nodes |-> [t \in PortTypes |-> 1]]
    /\ entries = [n \in Nodes |-> [t \in PortTypes |-> <<(<<>>)>>]]

NextNode ==
    \/ SetGraphicsObject(Subject)
    \/ PropagateData(Subject, 0)
    \/ \E v \in Data : DataUpdated(Subject, 0, v)
    \/ NodeSizeUpdated(Subject)
    \/ PortCountChanged(Subject, nPorts[Subject]["In"], nPorts[Subject]["Out"])
    \/ RecalculateVisuals(Subject)
    \/ Save(Subject)
    \/ \E j \in RestoreInputs : Restore(Subject, j)
    \/ \E t \in PortTypes, dt \in DataTypes, p \in ScenePoints :
          ReactToPossibleConnection(Subject, t, dt, p)
    \/ ResetReactionToConnection(Subject)

SpecNode == InitNode /\ [][NextNode]_vars

(***************************************************************************)
(* The claims                                                              *)
(***************************************************************************)
CallsOf(name) == {k \in DOMAIN trace : trace[k].call = name}

\* The runs of propagateData in the trace: a run starts at its
\* "propagateData" entry and ends at the next "return" (or with the trace).
Runs == CallsOf("propagateData")
RunEnd(a) ==
    LET ends == {b \in CallsOf("return") : b > a}
    IN  IF ends = {} THEN Len(trace) + 1
        ELSE CHOOSE b \in ends : \A e \in ends : b <= e
SetInDataOf(a) == {k \in CallsOf("setInData") : a < k /\ k < RunEnd(a)}
VisualCalls == {"setGeometryChanged", "recalculateSize", "update", "moveConnections"}

\* C1: every run of propagateData(inPortIndex) calls setInData exactly once,
\* for port inPortIndex, with one entry per connection registered on that
\* input port, in the iteration order of the connection set; an entry is the
\* upstream outData(outPortIndex), converted when the connection has a
\* converter and unchanged when it has none; a null value is an entry too.
C1_PropagateGathers ==
    \A a \in Runs :
        LET n == trace[a].node
            i == trace[a].port
            cs == Connections(n, "In", i)
        IN  /\ Cardinality(SetInDataOf(a)) = 1
            /\ \A s \in SetInDataOf(a) :
                  /\ trace[s].node = n /\ trace[s].port = i
                  /\ Len(trace[s].data) = Len(cs)
                  /\ \A k \in 1..Len(cs) :
                        LET r == cs[k]
                            up == outData[r.outNode][r.outPort + 1]
                        IN  /\ r.conv = "none" => trace[s].data[k] = up
                            /\ r.conv # "none" => trace[s].data[k] = Convert(r.conv, up)

\* C1 witness: propagateData ran on a port with two connections, one with a
\* converter and one that delivers a null value.
C1_Witness ==
    /\ lastOp.op = "propagateData" /\ ~nullDeref
    /\ \E s \in CallsOf("setInData") :
          /\ Len(trace[s].data) = 2
          /\ "null" \in Range(trace[s].data)
          /\ "A" \in Range(trace[s].data)

\* C2: in every run of propagateData the model receives its input before the
\* node is refreshed: no geometry call or repaint of the node comes before
\* setInData, and setInData is followed, in this order, by
\* setGeometryChanged, recalculateSize, update and moveConnections.
C2_RefreshAfterSetInData ==
    \A a \in Runs :
        LET n == trace[a].node
        IN  /\ SetInDataOf(a) # {}
            /\ \A s \in SetInDataOf(a) :
                  /\ \A k \in (a + 1)..(s - 1) :
                        ~(trace[k].call \in VisualCalls /\ trace[k].node = n)
                  /\ RunEnd(a) <= Len(trace) =>
                        /\ s + 4 < RunEnd(a)
                        /\ [k \in 1..4 |-> trace[s + k].call] =
                              <<"setGeometryChanged", "recalculateSize", "update", "moveConnections">>
                        /\ \A k \in 1..4 : trace[s + k].node = n

\* C2 witness: propagateData ran to its end on a port that has a connection.
C2_Witness ==
    /\ lastOp.op = "propagateData" /\ ~nullDeref
    /\ Connections(lastOp.node, "In", lastOp.port) # <<>>
    /\ CallsOf("moveConnections") # {}

\* C3: each operation that handles a change of the port count, the data or
\* the embedded widget size runs recalculateSize of its node before it
\* returns, so the geometry of no node is older than the node's last change.
C3_GeometryRecalculated ==
    /\ (lastOp.op \in {"onPortCountChanged", "propagateData", "onDataUpdated", "onNodeSizeUpdated"}
         /\ ~nullDeref) => lastOp.node \in Recalculated(trace)
    /\ ~nullDeref => \A n \in Nodes : geomFresh[n]

\* C6: onDataUpdated(index) reads outData(index) once and hands that value
\* to Connection::propagateData of every connection of output port index,
\* once each, in iteration order, and of no other connection; every
\* propagation it starts has returned when the handler returns.
C6_DataPushedDownstream ==
    lastOp.op = "onDataUpdated" =>
        LET n == lastOp.node
            v == outData[n][lastOp.port + 1]
            cs == Connections(n, "Out", lastOp.port)
            pushes == SelectSeq(trace, LAMBDA e : e.call = "Connection::propagateData")
        IN  /\ {k \in CallsOf("outData") : trace[k].conn = NoConn} = {1}
            /\ trace[1].node = n /\ trace[1].port = lastOp.port /\ trace[1].data = <<v>>
            /\ Len(pushes) = Len(cs)
            /\ \A k \in 1..Len(cs) : pushes[k].conn = cs[k] /\ pushes[k].data = <<v>>
            /\ cs = <<>> => Len(trace) = 1
            /\ ~nullDeref => \A a \in Runs : RunEnd(a) <= Len(trace)

\* C6 witness: onDataUpdated ran on an output port that has a connection,
\* while another output port of the node has a connection too.
C6_Witness ==
    /\ lastOp.op = "onDataUpdated" /\ ~nullDeref
    /\ Connections(lastOp.node, "Out", lastOp.port) # <<>>
    /\ \E i \in 1..Len(entries[lastOp.node]["Out"]) :
          i # lastOp.port + 1 /\ entries[lastOp.node]["Out"][i] # <<>>

\* C10: propagateData, onDataUpdated and onNodeSizeUpdated leave the
\* connection tables, the connections, the ids and the port counts as they
\* are; propagateData(i) calls setInData for port i of its node only and
\* leaves the output data of every node as it is.
C10_PropagationKeepsStructure ==
    [][lastOp'.op \in {"propagateData", "onDataUpdated", "onNodeSizeUpdated"} =>
         /\ entries' = entries /\ uid' = uid /\ nPorts' = nPorts
         /\ lastOp'.op = "propagateData" =>
               /\ outData' = outData
               /\ \A k \in DOMAIN trace' :
                     trace'[k].call = "setInData" =>
                        trace'[k].node = lastOp'.node /\ trace'[k].port = lastOp'.port
      ]_vars

\* C10 witness: propagateData ran on input port 1, which has a connection.
C10_Witness ==
    /\ lastOp.op = "propagateData" /\ ~nullDeref
    /\ lastOp.port = 1
    /\ Connections(lastOp.node, "In", 1) # <<>>

Count(seq, c) == Cardinality({k \in DOMAIN seq : seq[k] = c})
PortOf(c, t) == IF t = "In" THEN c.inPort ELSE c.outPort
KillsOf(tr, t) ==
    LET ks == SelectSeq(tr, LAMBDA e : e.call = "killConnection" /\ e.data = <<t>>)
    IN  [k \in 1..Len(ks) |-> ks[k].conn]

\* C7: onPortCountChanged emits killConnection once for every connection of
\* a port index i with newCount <= i < oldCount, for In and then for Out,
\* and for no connection of a port below newCount; the port table is resized
\* after the last kill, to the model's port counts, and then holds no
\* connection of a removed port.
C7_RemovedPortsKilled ==
    [][lastOp'.op = "onPortCountChanged" =>
         LET n == lastOp'.node
         IN  /\ \A t \in PortTypes :
                   LET old == entries[n][t]
                       newCount == nPorts'[n][t]
                       kills == KillsOf(trace', t)
                   IN  /\ \A i \in 1..Len(old) : \A c \in Range(old[i]) :
                             Count(kills, c) = IF i - 1 >= newCount THEN Count(old[i], c) ELSE 0
                       /\ \A k \in 1..Len(kills) :
                             /\ newCount <= PortOf(kills[k], t) /\ PortOf(kills[k], t) < Len(old)
                             /\ kills[k] \in Range(old[PortOf(kills[k], t) + 1])
                       /\ newCount >= Len(old) => kills = <<>>
                       /\ Len(entries'[n][t]) = newCount
                       /\ \A i \in 1..Len(entries'[n][t]) : \A c \in Range(entries'[n][t][i]) :
                             PortOf(c, t) = i - 1 /\ c \in Range(old[i])
             /\ \A k \in DOMAIN trace', m \in DOMAIN trace' :
                   /\ (trace'[k].call = "killConnection" /\ trace'[k].data = <<"In">>
                        /\ trace'[m].call = "killConnection" /\ trace'[m].data = <<"Out">>) => k < m
                   /\ (trace'[k].call = "killConnection"
                        /\ trace'[m].call = "NodeState::updatePortCount") => k < m
             /\ \E m \in DOMAIN trace' : trace'[m].call = "NodeState::updatePortCount"
      ]_vars

\* C7 witness: onPortCountChanged killed a connection of a removed port and
\* kept a connection of a port that stays.
C7_Witness ==
    /\ lastOp.op = "onPortCountChanged" /\ ~nullDeref
    /\ CallsOf("killConnection") # {}
    /\ \E t \in PortTypes : Flatten(entries[lastOp.node][t]) # <<>>

\* The JSON objects save can return.
Points == [x : Coords, y : Coords]
ModelRestoredWith(obj) ==
    \E k \in CallsOf("NodeDataModel::restore") : trace[k].data = <<obj>>

\* C4: save returns an object with exactly the fields id (the uuid as a
\* string), model (the model's save) and position (x and y of the graphics
\* object); restore from such an object makes id() the saved id, the position
\* the saved position, hands the saved model object to the model, and a save
\* after it returns the same id and position.
C4_SaveRestoreRoundTrip ==
    LET n == lastOp.node
    IN  /\ (lastOp.op = "save" /\ ~nullDeref) =>
              /\ DOMAIN json = {"id", "model", "position"}
              /\ json["id"].t = "string"
              /\ UuidFromString(json["id"].s) = uid[n]
              /\ json["model"] = JObject(ModelSave(n))
              /\ json["position"].t = "object"
              /\ DOMAIN json["position"].o = {"x", "y"}
              /\ json["position"].o["x"] = JDouble(pos[n].x)
              /\ json["position"].o["y"] = JDouble(pos[n].y)
        /\ (lastOp.op = "restore" /\ ~nullDeref) =>
              \A u \in Uuids, p \in Points, m \in Nodes :
                  json = SaveJson(u, p, ModelSave(m)) =>
                      /\ uid[n] = u
                      /\ pos[n] = p
                      /\ ModelRestoredWith(ModelSave(m))
                      /\ Value(NodeSave(n), "id") = Value(json, "id")
                      /\ Value(NodeSave(n), "position") = Value(json, "position")

\* C4 witness: a node was restored from the object another node, with
\* another id and position, would save.
C4_Witness ==
    /\ lastOp.op = "restore" /\ ~nullDeref
    /\ json = SaveJson(MaxUid, [x |-> MaxCoord, y |-> 0], ModelSave("n2"))
    /\ uid[lastOp.node] = MaxUid
    /\ pos[lastOp.node] = [x |-> MaxCoord, y |-> 0]

\* What restore is to take from a field: its value when the field is there
\* and well formed, the default otherwise.
ExpectedUid(j) ==
    IF "id" \in DOMAIN j /\ j["id"].t = "string"
       /\ \E u \in Uuids : j["id"].s = UuidToString(u)
    THEN CHOOSE u \in Uuids : j["id"].s = UuidToString(u)
    ELSE 0
ExpectedCoord(j, key) ==
    IF "position" \in DOMAIN j /\ j["position"].t = "object"
       /\ key \in DOMAIN j["position"].o /\ j["position"].o[key].t = "double"
    THEN j["position"].o[key].d
    ELSE 0
ExpectedModel(j) ==
    IF "model" \in DOMAIN j /\ j["model"].t = "object" THEN j["model"].o ELSE EmptyObject

\* C5: restore of a node with a graphics object completes for every input:
\* a field that is missing or of another type takes its default (the null
\* uuid, the coordinate 0, the empty model object) and every well-formed
\* field is applied.
C5_RestoreTakesDefaults ==
    (lastOp.op = "restore" /\ graphics[lastOp.node]) =>
        /\ ~nullDeref
        /\ uid[lastOp.node] = ExpectedUid(json)
        /\ pos[lastOp.node] = [x |-> ExpectedCoord(json, "x"), y |-> ExpectedCoord(json, "y")]
        /\ ModelRestoredWith(ExpectedModel(json))

\* C5 witness: restore was given a position that has y and no x, and no
\* well-formed id: y is applied, x is 0 and the id is null.
C5_Witness ==
    /\ lastOp.op = "restore" /\ ~nullDeref
    /\ "position" \in DOMAIN json /\ json["position"].t = "object"
    /\ DOMAIN json["position"].o = {"y"}
    /\ pos[lastOp.node] = [x |-> 0, y |-> MaxCoord]

\* C5 witness, second case: restore was given an id of another type.
C5_WitnessBadId ==
    /\ lastOp.op = "restore" /\ ~nullDeref
    /\ "id" \in DOMAIN json /\ json["id"].t # "string"
    /\ uid[lastOp.node] = 0

\* C8: reactToPossibleConnection leaves the node REACTING with the port type
\* and data type of the call, resetReactionToConnection leaves it
\* NOT_REACTING, and no other operation changes the reaction of any node.
C8_ReactionFollowsDrag ==
    [][LET n == lastOp'.node
       IN  /\ (lastOp'.op = "reactToPossibleConnection" /\ ~nullDeref') =>
                 /\ reaction'[n] = [reaction |-> "REACTING", portType |-> lastOp'.args[1],
                                     dataType |-> lastOp'.args[2]]
                 /\ \A m \in Nodes \ {n} : reaction'[m] = reaction[m]
           /\ lastOp'.op = "resetReactionToConnection" =>
                 /\ reaction'[n].reaction = "NOT_REACTING"
                 /\ \A m \in Nodes \ {n} : reaction'[m] = reaction[m]
           /\ lastOp'.op \notin {"reactToPossibleConnection", "resetReactionToConnection"} =>
                 reaction' = reaction
      ]_vars

\* C8 witness: restore ran on a node that is reacting, and it still is.
C8_Witness ==
    /\ lastOp.op = "restore" /\ ~nullDeref
    /\ reaction[lastOp.node].reaction = "REACTING"

RequireGraphics ==
    {"save", "restore", "reactToPossibleConnection", "resetReactionToConnection",
     "propagateData", "onPortCountChanged", "recalculateVisuals"}

====
